---- MODULE Spec2Model ----
(***************************************************************************)
(* Model of the physical-frame manager of vm/frame.c: the frame registry   *)
(* (list `frames`), the clock hand, pin flags, the in-flight eviction      *)
(* counter `transition_frames` with its condition variable, and the        *)
(* operations frame_get, frame_unpin, frame_free and frame_clear as they   *)
(* are executed by concurrent kernel threads.                              *)
(*                                                                         *)
(* A frame record is identified by the address malloc returned for it: a   *)
(* slot.  free() makes the slot available to the next malloc, so a pointer *)
(* kept across a free aliases whatever record is created there next.       *)
(***************************************************************************)
EXTENDS Integers, Sequences, FiniteSets, TLC

\* ---------------------------------------------------------------- bounds
NThreads == 2        \* kernel threads using the frame table
NPages   == 2        \* pages in the user pool (capacity of the registry)
NUaddrs  == 2        \* user pages per thread
MaxOps   == 7        \* calls of frame_get, frame_free and frame_clear
MaxScan  == 3        \* records in a registry handed to clock_algorithm

Threads == 1..NThreads
Slots   == 1..NPages         \* addresses malloc can return for a frame_entry
Pages   == 1..NPages         \* physical pages of the user pool
Uaddrs  == 1..NUaddrs

NULL == 0            \* the null pointer
HEAD == -1           \* &frames.head, list_head (&frames)
TAIL == -2           \* &frames.tail, list_end (&frames)

VARIABLES
  frames,            \* static struct list frames: the records in list order
  clock_hand,        \* static struct list_elem *clock_hand
  lock,              \* frames_lock: its holder, or NULL
  transition_frames, \* static int transition_frames
  alive,             \* alive[s]: slot s holds a malloc'ed frame_entry
  rec,               \* rec[s]: the fields t, uaddr, kaddr, pinned at slot s
  spe,               \* spe[t][u]: s_page_entry.frame of page u of thread t
  accessed,          \* accessed[t][u]: the page table's accessed bit
  kfree,             \* pages the user pool has free
  pc,                \* pc[t]: where thread t is in the call it is making
  loc,               \* loc[t]: the locals f and uaddr of that call, the path
                     \* frame_get took, its calls of page_evict and the
                     \* owner the victim had when it was selected
  ops,               \* calls of the frame table's interface made so far
  panic,             \* "none", or the assertion that stopped the kernel
  pending,           \* pending[t]: the evictions in flight when frame_clear
                     \* of t took the lock (at), and those of them that
                     \* have not decremented the counter since (left)
  adv,               \* clock_next calls made by the last clock_algorithm
  snap,              \* the registry as it was when the scan was entered
  dirty,             \* the pages that hold a byte other than zero
  wr                 \* the write system call in progress: its arguments,
                     \* the locals of sys_write_blocks, what the writer got

vars == <<frames, clock_hand, lock, transition_frames, alive, rec, spe,
          accessed, kfree, pc, loc, ops, panic, pending, adv, snap, dirty,
          wr>>

\* ------------------------------------------------------- lib/kernel/list
InList(fr, e) == \E i \in 1..Len(fr) : fr[i] = e

IndexOf(fr, e) == CHOOSE i \in 1..Len(fr) : fr[i] = e

list_begin(fr) == IF fr = <<>> THEN TAIL ELSE fr[1]

\* list_next asserts that its argument is the head or an interior element
list_next_ok(fr, e) == e = HEAD \/ InList(fr, e)

list_next(fr, e) ==
  IF e = HEAD THEN list_begin(fr)
  ELSE IF IndexOf(fr, e) = Len(fr) THEN TAIL ELSE fr[IndexOf(fr, e) + 1]

list_remove(fr, e) == SelectSeq(fr, LAMBDA x : x # e)

list_push_back(fr, e) == Append(fr, e)

\* ------------------------------------------------------------ clock_next
clock_next(fr, hand) ==
  IF list_next(fr, hand) = TAIL THEN list_begin(fr) ELSE list_next(fr, hand)

\* ------------------------------------------------------- clock_algorithm
\* The result of a scan: the victim f (or NULL), the hand, the accessed
\* bits, the number of clock_next calls, and the assertion that failed.
ClockResult(f, hand, acc, k, err) ==
  [f |-> f, hand |-> hand, acc |-> acc, adv |-> k, panic |-> err]

\* while (f->pinned) { f = clock_next (); if (f == clock_start) return NULL; }
RECURSIVE FindUnpinned(_, _, _, _, _, _)
FindUnpinned(fr, rc, acc, f, start, k) ==
  IF ~rc[f].pinned
    THEN ClockResult(f, f, acc, k, "none")
    ELSE IF clock_next(fr, f) = start
           THEN ClockResult(NULL, start, acc, k + 1, "none")
           ELSE FindUnpinned(fr, rc, acc, clock_next(fr, f), start, k + 1)

\* do { if (!f->pinned) { if (accessed) clear; else break; }
\*      f = clock_next (); } while (f != clock_start);
RECURSIVE Sweep(_, _, _, _, _, _)
Sweep(fr, rc, acc, f, start, k) ==
  IF ~rc[f].pinned /\ ~acc[rc[f].t][rc[f].uaddr]
    THEN ClockResult(f, f, acc, k, "none")
    ELSE LET acc2 == IF ~rc[f].pinned
                       THEN [acc EXCEPT ![rc[f].t][rc[f].uaddr] = FALSE]
                       ELSE acc
         IN IF clock_next(fr, f) = start
              THEN ClockResult(start, start, acc2, k + 1, "none")
              ELSE Sweep(fr, rc, acc2, clock_next(fr, f), start, k + 1)

clock_algorithm(fr, rc, acc, hand) ==
  IF fr = <<>> THEN ClockResult(NULL, hand, acc, 0, "none")
  ELSE IF ~list_next_ok(fr, hand)
    THEN ClockResult(NULL, hand, acc, 0, "list_next")
  ELSE LET first == FindUnpinned(fr, rc, acc, clock_next(fr, hand),
                                 clock_next(fr, hand), 1)
       IN IF first.f = NULL THEN first
          ELSE LET r == Sweep(fr, rc, acc, first.f, first.f, first.adv)
               IN IF rc[r.f].pinned    \* ASSERT (!f->pinned)
                    THEN [r EXCEPT !.f = NULL, !.panic = "pin"]
                    ELSE r

\* ---------------------------------------------------------------- Init
\* frame_init, with no page mapped and every thread outside the frame table
NoRecord == [t |-> NULL, uaddr |-> NULL, kaddr |-> NULL, pinned |-> FALSE]

NonePending == [at |-> {}, left |-> {}]

\* No write system call is in progress.
NoWrite == [at |-> "none"]

NoLocals ==
  [f |-> NULL, u |-> NULL, how |-> "none", calls |-> 0, own |-> <<>>,
   zero |-> FALSE]

Init ==
  /\ frames = <<>>
  /\ clock_hand = HEAD
  /\ lock = NULL
  /\ transition_frames = 0
  /\ alive = [s \in Slots |-> FALSE]
  /\ rec = [s \in Slots |-> NoRecord]
  /\ spe = [t \in Threads |-> [u \in Uaddrs |-> NULL]]
  /\ accessed = [t \in Threads |-> [u \in Uaddrs |-> FALSE]]
  /\ kfree = Pages
  /\ pc = [t \in Threads |-> "idle"]
  /\ loc = [t \in Threads |-> NoLocals]
  /\ ops = 0
  /\ panic = "none"
  /\ pending = [t \in Threads |-> NonePending]
  /\ adv = 0
  /\ snap = <<>>
  /\ dirty = {}
  /\ wr = NoWrite

Min(S) == CHOOSE x \in S : \A y \in S : x <= y

\* What a read of f->pinned can yield: the field while the record is
\* allocated, either value once the memory has been freed.
PinnedRead(f) == IF alive[f] THEN {rec[f].pinned} ELSE BOOLEAN

\* ------------------------------------------------------------ frames_lock
\* Thread t is inside frame_evict between the increment and the decrement of
\* transition_frames.
InFlight(t) ==
  pc[t] \in {"page_evict", "fail_unpin_lock", "fail_unpin", "dec_lock", "dec"}

\* lock_acquire: the call sites of vm/frame.c and the statement each leads to
AfterAcquire ==
  [create_lock |-> "create_insert", evict_lock |-> "evict_clock",
   fail_unpin_lock |-> "fail_unpin", dec_lock |-> "dec",
   unpin_lock |-> "unpin", free_lock |-> "free",
   clear_lock |-> "clear_check", clear_woken |-> "clear_apply"]

\* lock_acquire, with frame_create going on without the lock
LockAcquire_NoLock(t) ==
  /\ panic = "none"
  /\ pc[t] \in DOMAIN AfterAcquire
  /\ lock = NULL \/ pc[t] = "create_lock"
  /\ lock' = IF pc[t] = "create_lock" THEN lock ELSE t
  /\ pc' = [pc EXCEPT ![t] = AfterAcquire[pc[t]]]
  /\ pending' = IF pc[t] = "clear_lock"
                  THEN [pending EXCEPT ![t] =
                          [at |-> {x \in Threads : InFlight(x)},
                           left |-> {x \in Threads : InFlight(x)}]]
                  ELSE pending
  /\ UNCHANGED <<frames, clock_hand, transition_frames, alive, rec, spe,
                 accessed, kfree, loc, ops, panic, adv, snap, dirty, wr>>

LockAcquire(t) ==
  /\ panic = "none"
  /\ pc[t] \in DOMAIN AfterAcquire
  /\ lock = NULL
  /\ lock' = t
  /\ pc' = [pc EXCEPT ![t] = AfterAcquire[pc[t]]]
  /\ pending' = IF pc[t] = "clear_lock"
                  THEN [pending EXCEPT ![t] =
                          [at |-> {x \in Threads : InFlight(x)},
                           left |-> {x \in Threads : InFlight(x)}]]
                  ELSE pending
  /\ UNCHANGED <<frames, clock_hand, transition_frames, alive, rec, spe,
                 accessed, kfree, loc, ops, panic, adv, snap, dirty, wr>>

\* ------------------------------------------------- frame_get, frame_create
\* frame_get (uaddr, flags); z is flags & PAL_ZERO.  palloc_get_page and
\* malloc hand out the first free page and block, and palloc_get_page
\* zeroes the page when it is asked to.
frame_get(t, u, z) ==
  /\ panic = "none"
  /\ pc[t] = "idle"
  /\ spe[t][u] = NULL
  /\ ops < MaxOps
  /\ ops' = ops + 1
  /\ IF kfree # {}
       THEN LET k == Min(kfree)
                s == Min({x \in Slots : ~alive[x]})
            IN /\ kfree' = kfree \ {k}
               /\ dirty' = IF z THEN dirty \ {k} ELSE dirty
               /\ alive' = [alive EXCEPT ![s] = TRUE]
               /\ rec' = [rec EXCEPT ![s] =
                            [t |-> t, uaddr |-> u, kaddr |-> k,
                             pinned |-> TRUE]]
               /\ loc' = [loc EXCEPT ![t] =
                            [NoLocals EXCEPT !.f = s, !.u = u,
                                             !.how = "fresh", !.zero = z]]
               /\ pc' = [pc EXCEPT ![t] = "create_lock"]
       ELSE /\ loc' = [loc EXCEPT ![t] =
                         [NoLocals EXCEPT !.u = u, !.how = "evict",
                                          !.zero = z]]
            /\ pc' = [pc EXCEPT ![t] = "evict_lock"]
            /\ UNCHANGED <<kfree, alive, rec, dirty>>
  /\ UNCHANGED <<frames, clock_hand, lock, transition_frames, spe, accessed,
                 panic, pending, adv, snap, wr>>

\* frame_get (uaddr, 0)
FrameGet(t, u) == frame_get(t, u, FALSE)

\* frame_get (uaddr, PAL_ZERO)
FrameGetZero(t, u) == frame_get(t, u, TRUE)

CreateInsert(t) ==
  /\ panic = "none"
  /\ pc[t] = "create_insert"
  /\ frames' = list_push_back(frames, loc[t].f)
  /\ lock' = NULL
  /\ pc' = [pc EXCEPT ![t] = "got"]
  /\ UNCHANGED <<clock_hand, transition_frames, alive, rec, spe, accessed,
                 kfree, loc, ops, panic, pending, adv, snap, dirty, wr>>

\* ------------------------------------------------------------ frame_evict
frame_pin_no_lock(rc, f) == [rc EXCEPT ![f].pinned = TRUE]

EvictClockBody(t) ==
  /\ panic = "none"
  /\ pc[t] = "evict_clock"
  /\ LET r == clock_algorithm(frames, rec, accessed, clock_hand)
     IN /\ clock_hand' = r.hand
        /\ accessed' = r.acc
        /\ panic' = r.panic
        /\ IF r.panic # "none"
             THEN UNCHANGED <<rec, transition_frames, lock, pc, loc>>
           ELSE IF r.f = NULL
             THEN /\ lock' = NULL
                  /\ pc' = [pc EXCEPT ![t] = "ret_novictim"]
                  /\ loc' = [loc EXCEPT ![t].f = NULL]
                  /\ UNCHANGED <<rec, transition_frames>>
             ELSE /\ rec' = frame_pin_no_lock(rec, r.f)
                  /\ transition_frames' = transition_frames + 1
                  /\ lock' = NULL
                  /\ loc' = [loc EXCEPT
                              ![t].f = r.f,
                              ![t].own = <<rec[r.f].t, rec[r.f].uaddr>>]
                  /\ pc' = [pc EXCEPT ![t] = "page_evict"]
  /\ UNCHANGED <<frames, alive, spe, kfree, ops, pending, snap, dirty, wr>>

EvictClock(t) == EvictClockBody(t) /\ UNCHANGED adv

\* page_evict (f->t, f->uaddr) of vm/page.c and the branch on its result.
\* On success the old owner's entry loses its frame and its mapping.  When
\* the victim's memory has been freed meanwhile, the call works on garbage:
\* it stops the kernel, fails, or succeeds without touching any entry, and
\* the stores to f->t and f->uaddr land in free memory.
PageEvict(t) ==
  /\ panic = "none"
  /\ pc[t] = "page_evict"
  /\ LET f == loc[t].f
     IN \E success \in BOOLEAN :
          IF success
            THEN /\ IF alive[f]
                      THEN /\ spe' = [spe EXCEPT
                                        ![rec[f].t][rec[f].uaddr] = NULL]
                           /\ accessed' = [accessed EXCEPT
                                             ![rec[f].t][rec[f].uaddr] = FALSE]
                      ELSE UNCHANGED <<spe, accessed>>
                 /\ rec' = [rec EXCEPT ![f].t = t, ![f].uaddr = loc[t].u]
                 /\ pc' = [pc EXCEPT ![t] = "dec_lock"]
                 /\ loc' = [loc EXCEPT ![t].calls = @ + 1]
                 /\ UNCHANGED panic
            ELSE \/ /\ pc' = [pc EXCEPT ![t] = "fail_unpin_lock"]
                    /\ loc' = [loc EXCEPT ![t].calls = @ + 1]
                    /\ UNCHANGED <<spe, accessed, rec, panic>>
                 \/ /\ ~alive[f]
                    /\ panic' = "page_evict"
                    /\ UNCHANGED <<spe, accessed, rec, loc, pc>>
  /\ UNCHANGED <<frames, clock_hand, lock, transition_frames, alive, kfree,
                 ops, pending, adv, snap, dirty, wr>>

\* ------------------------------------------------------------ frame_unpin
\* ASSERT (f->pinned); f->pinned = false; lock_release
UnpinBody(t, next, l2) ==
  /\ panic = "none"
  /\ \E p \in PinnedRead(loc[t].f) :
       IF p
         THEN /\ rec' = [rec EXCEPT ![loc[t].f].pinned = FALSE]
              /\ lock' = NULL
              /\ pc' = [pc EXCEPT ![t] = next]
              /\ loc' = [loc EXCEPT ![t] = l2]
              /\ UNCHANGED panic
         ELSE /\ panic' = "unpin"
              /\ UNCHANGED <<rec, lock, pc, loc>>
  /\ UNCHANGED <<frames, clock_hand, transition_frames, alive, spe, accessed,
                 kfree, ops, pending, adv, snap, dirty, wr>>

\* frame_unpin (f); f = NULL; on the failure path of frame_evict
EvictFailUnpin(t) == pc[t] = "fail_unpin" /\ 
  UnpinBody(t, "dec_lock", [loc[t] EXCEPT !.f = NULL])

\* The end of frame_evict without the cond_broadcast
EvictDec_NoBroadcast(t) ==
  /\ panic = "none"
  /\ pc[t] = "dec"
  /\ transition_frames' = transition_frames - 1
  /\ lock' = NULL
  /\ pc' = [pc EXCEPT ![t] =
              IF loc[t].f = NULL THEN "ret_evictfail"
              ELSE IF loc[t].zero THEN "zero_fill" ELSE "got"]
  /\ pending' = [x \in Threads |-> [pending[x] EXCEPT !.left = @ \ {t}]]
  /\ UNCHANGED <<frames, clock_hand, alive, rec, spe, accessed, kfree, loc,
                 ops, panic, adv, snap, dirty, wr>>

\* transition_frames--; broadcast at zero; lock_release; return f
EvictDec(t) ==
  /\ panic = "none"
  /\ pc[t] = "dec"
  /\ transition_frames' = transition_frames - 1
  /\ lock' = NULL
  /\ pc' = [x \in Threads |->
              IF x = t THEN (IF loc[t].f = NULL THEN "ret_evictfail"
                             ELSE IF loc[t].zero THEN "zero_fill" ELSE "got")
              ELSE IF transition_frames' = 0 /\ pc[x] = "clear_wait"
                THEN "clear_woken"
              ELSE pc[x]]
  /\ pending' = [x \in Threads |-> [pending[x] EXCEPT !.left = @ \ {t}]]
  /\ UNCHANGED <<frames, clock_hand, alive, rec, spe, accessed, kfree, loc,
                 ops, panic, adv, snap, dirty, wr>>

\* memset (f->kaddr, 0, PGSIZE) of frame_get.  f->kaddr read from a record
\* that has been freed is any address: a page of the pool, or one whose
\* write faults in the kernel.
ZeroFill(t) ==
  /\ panic = "none"
  /\ pc[t] = "zero_fill"
  /\ \/ /\ \E k \in (IF alive[loc[t].f] THEN {rec[loc[t].f].kaddr} ELSE Pages) :
            dirty' = dirty \ {k}
        /\ pc' = [pc EXCEPT ![t] = "got"]
        /\ UNCHANGED panic
     \/ /\ ~alive[loc[t].f]
        /\ panic' = "memset"
        /\ UNCHANGED <<pc, dirty>>
  /\ UNCHANGED <<frames, clock_hand, lock, transition_frames, alive, rec,
                 spe, accessed, kfree, loc, ops, pending, adv, snap, wr>>

\* frame_get returns NULL: no victim, or page_evict failed
ReturnNull(t) ==
  /\ panic = "none"
  /\ pc[t] \in {"ret_novictim", "ret_evictfail"}
  /\ pc' = [pc EXCEPT ![t] = "idle"]
  /\ loc' = [loc EXCEPT ![t] = NoLocals]
  /\ UNCHANGED <<frames, clock_hand, lock, transition_frames, alive, rec,
                 spe, accessed, kfree, ops, panic, pending, adv, snap, dirty,
                 wr>>

\* --------------------------------- the caller of frame_get (vm/page.c)
\* The faulting thread installs the mapping, then calls frame_unpin.
Install(t) ==
  /\ panic = "none"
  /\ pc[t] = "got"
  /\ spe' = [spe EXCEPT ![t][loc[t].u] = loc[t].f]
  /\ accessed' = [accessed EXCEPT ![t][loc[t].u] = FALSE]
  /\ pc' = [pc EXCEPT ![t] = "unpin_lock"]
  /\ UNCHANGED <<frames, clock_hand, lock, transition_frames, alive, rec,
                 kfree, loc, ops, panic, pending, adv, snap, dirty, wr>>

FrameUnpin(t) == pc[t] = "unpin" /\ UnpinBody(t, "idle", NoLocals)

\* The hardware sets the accessed bit when the thread, running user code,
\* uses a mapped page.
Touch(t, u) ==
  /\ panic = "none"
  /\ pc[t] = "idle"
  /\ spe[t][u] # NULL
  /\ ~accessed[t][u]
  /\ accessed' = [accessed EXCEPT ![t][u] = TRUE]
  /\ UNCHANGED <<frames, clock_hand, lock, transition_frames, alive, rec,
                 spe, kfree, pc, loc, ops, panic, pending, adv, snap, dirty,
                 wr>>

\* The thread, running user code, stores a byte other than zero into a page
\* it has mapped.
UserWrite(t, u) ==
  /\ panic = "none"
  /\ pc[t] = "idle"
  /\ spe[t][u] # NULL
  /\ alive[spe[t][u]]
  /\ rec[spe[t][u]].kaddr \notin dirty
  /\ dirty' = dirty \cup {rec[spe[t][u]].kaddr}
  /\ accessed' = [accessed EXCEPT ![t][u] = TRUE]
  /\ UNCHANGED <<frames, clock_hand, lock, transition_frames, alive, rec,
                 spe, kfree, pc, loc, ops, panic, pending, adv, snap, wr>>

\* ------------------------------------------------ clock_safe_frame_remove
\* The registry state a removal works on.  list_remove and free of a block
\* that is not an allocated, registered record stop the kernel.
RegState(fr, hand, al, rc, sp, err) ==
  [frames |-> fr, hand |-> hand, alive |-> al, rec |-> rc, spe |-> sp,
   panic |-> err]

\* clock_safe_frame_remove re-pointing the hand at the start of the list on
\* every removal
clock_safe_frame_remove_Rewind(st, t, u) ==
  LET f == st.spe[t][u]
  IN IF ~st.alive[f] \/ ~InList(st.frames, f)
       THEN [st EXCEPT !.panic = "list_remove"]
     ELSE LET fr2 == list_remove(st.frames, f)
          IN RegState(fr2, list_begin(fr2), [st.alive EXCEPT ![f] = FALSE],
                      [st.rec EXCEPT ![f] = NoRecord],
                      [st.spe EXCEPT ![t][u] = NULL], "none")

clock_safe_frame_remove(st, t, u) ==
  LET f == st.spe[t][u]
  IN IF ~st.alive[f] \/ ~InList(st.frames, f)
       THEN [st EXCEPT !.panic = "list_remove"]
     ELSE LET fr2 == list_remove(st.frames, f)
              h2 == IF f = st.hand
                      THEN (IF list_next(st.frames, f) = TAIL
                              THEN list_begin(fr2)
                              ELSE list_next(st.frames, f))
                      ELSE st.hand
          IN RegState(fr2, h2, [st.alive EXCEPT ![f] = FALSE],
                      [st.rec EXCEPT ![f] = NoRecord],
                      [st.spe EXCEPT ![t][u] = NULL], "none")

ApplyRegState(st) ==
  /\ frames' = st.frames
  /\ clock_hand' = st.hand
  /\ alive' = st.alive
  /\ rec' = st.rec
  /\ spe' = st.spe
  /\ panic' = st.panic

\* ------------------------------------------------------------- frame_free
FrameFree(t, u) ==
  /\ panic = "none"
  /\ pc[t] = "idle"
  /\ pc' = [pc EXCEPT ![t] = "free_lock"]
  /\ loc' = [loc EXCEPT ![t] = [NoLocals EXCEPT !.u = u]]
  /\ ops < MaxOps
  /\ ops' = ops + 1
  /\ UNCHANGED <<frames, clock_hand, lock, transition_frames, alive, rec,
                 spe, accessed, kfree, panic, pending, adv, snap, dirty, wr>>

FreeBody(t) ==
  /\ panic = "none"
  /\ pc[t] = "free"
  /\ LET u == loc[t].u
         st == RegState(frames, clock_hand, alive, rec, spe, "none")
     IN IF spe[t][u] = NULL
          THEN UNCHANGED <<frames, clock_hand, alive, rec, spe, panic>>
          ELSE \E p \in PinnedRead(spe[t][u]) :
                 IF p
                   THEN UNCHANGED <<frames, clock_hand, alive, rec, spe, panic>>
                 ELSE ApplyRegState(clock_safe_frame_remove(st, t, u))
  /\ lock' = NULL
  /\ pc' = [pc EXCEPT ![t] = "idle"]
  /\ loc' = [loc EXCEPT ![t] = NoLocals]
  /\ UNCHANGED <<transition_frames, accessed, kfree, ops, pending, adv, snap,
                 dirty,
                 wr>>

\* ------------------------------------------------------------ frame_clear
FrameClear(t) ==
  /\ panic = "none"
  /\ pc[t] = "idle"
  /\ pc' = [pc EXCEPT ![t] = "clear_lock"]
  /\ ops < MaxOps
  /\ ops' = ops + 1
  /\ UNCHANGED <<frames, clock_hand, lock, transition_frames, alive, rec,
                 spe, accessed, kfree, loc, panic, pending, adv, snap, dirty,
                 wr>>

\* frame_clear going on to the removals without waiting for the counter
ClearCheck_NoWait(t) ==
  /\ panic = "none"
  /\ pc[t] = "clear_check"
  /\ pc' = [pc EXCEPT ![t] = "clear_apply"]
  /\ UNCHANGED <<frames, clock_hand, lock, transition_frames, alive, rec, spe,
                 accessed, kfree, loc, ops, panic, pending, adv, snap, dirty,
                 wr>>

\* if (transition_frames > 0) cond_wait (&no_transitions, &frames_lock);
ClearCheck(t) ==
  /\ panic = "none"
  /\ pc[t] = "clear_check"
  /\ IF transition_frames > 0
       THEN /\ lock' = NULL
            /\ pc' = [pc EXCEPT ![t] = "clear_wait"]
       ELSE /\ pc' = [pc EXCEPT ![t] = "clear_apply"]
            /\ UNCHANGED lock
  /\ UNCHANGED <<frames, clock_hand, transition_frames, alive, rec, spe,
                 accessed, kfree, loc, ops, panic, pending, adv, snap, dirty,
                 wr>>

\* frame_remove_hash_action on one entry of the thread's page table
frame_remove_hash_action(st, t, u) ==
  IF st.panic = "none" /\ st.spe[t][u] # NULL
    THEN clock_safe_frame_remove(st, t, u)
    ELSE st

\* hash_apply: the action on every entry, in the table's order
RECURSIVE hash_apply(_, _, _)
hash_apply(st, t, order) ==
  IF order = <<>> THEN st
  ELSE hash_apply(frame_remove_hash_action(st, t, Head(order)), t,
                  Tail(order))

ClearApply(t) ==
  /\ panic = "none"
  /\ pc[t] = "clear_apply"
  /\ \E p \in Permutations(Uaddrs) :
       ApplyRegState(hash_apply(
         RegState(frames, clock_hand, alive, rec, spe, "none"), t,
         [i \in 1..NUaddrs |-> p[i]]))
  /\ lock' = NULL
  /\ pc' = [pc EXCEPT ![t] = "idle"]
  /\ pending' = [pending EXCEPT ![t] = NonePending]
  /\ UNCHANGED <<transition_frames, accessed, kfree, loc, ops, adv, snap, dirty,
                 wr>>

\* ------------------------------------------------- the page allocator
\* The page layer returns a page to the pool once no record refers to it.
ReleasePage(k) ==
  /\ panic = "none"
  /\ k \notin kfree
  /\ \A s \in Slots : alive[s] => rec[s].kaddr # k
  /\ kfree' = kfree \cup {k}
  /\ UNCHANGED <<frames, clock_hand, lock, transition_frames, alive, rec,
                 spe, accessed, pc, loc, ops, panic, pending, adv, snap, dirty,
                 wr>>

\* ------------------------------------------------------------------ Next
Next ==
  \/ \E t \in Threads : LockAcquire(t)
  \/ \E t \in Threads, u \in Uaddrs : FrameGet(t, u)
  \/ \E t \in Threads : CreateInsert(t)
  \/ \E t \in Threads : EvictClock(t)
  \/ \E t \in Threads : PageEvict(t)
  \/ \E t \in Threads : EvictFailUnpin(t)
  \/ \E t \in Threads : EvictDec(t)
  \/ \E t \in Threads : ReturnNull(t)
  \/ \E t \in Threads : Install(t)
  \/ \E t \in Threads : FrameUnpin(t)
  \/ \E t \in Threads, u \in Uaddrs : Touch(t, u)
  \/ \E t \in Threads, u \in Uaddrs : FrameFree(t, u)
  \/ \E t \in Threads : FreeBody(t)
  \/ \E t \in Threads : FrameClear(t)
  \/ \E t \in Threads : ClearCheck(t)
  \/ \E t \in Threads : ClearApply(t)
  \/ \E k \in Pages : ReleasePage(k)

Spec == Init /\ [][Next]_vars

TypeOK ==
  /\ clock_hand \in {HEAD, TAIL} \cup Slots
  /\ lock \in {NULL} \cup Threads
  /\ transition_frames \in 0..NThreads
  /\ panic \in {"none", "list_next", "pin", "unpin", "list_remove",
                "page_evict", "memset", "lock_held"}
  /\ dirty \subseteq Pages

\* ------------------------------------------ page contents and PAL_ZERO
\* Spec follows callers that pass no PAL_ZERO and leaves page contents
\* aside.  SpecZero adds frame_get (uaddr, PAL_ZERO) and the stores of user
\* code, from the point where every page of the pool has been handed out;
\* the last ZeroOps calls of the MaxOps are still to be made.
ZeroOps == 3

\* The owner of the i-th record: the threads take their first pages in turn.
FirstT(i) == ((i - 1) % NThreads) + 1

FirstU(i) == ((i - 1) \div NThreads) + 1

InitZero ==
  /\ frames = [i \in Slots |-> i]
  /\ clock_hand = HEAD
  /\ lock = NULL
  /\ transition_frames = 0
  /\ alive = [s \in Slots |-> TRUE]
  /\ rec = [s \in Slots |-> [t |-> FirstT(s), uaddr |-> FirstU(s),
                              kaddr |-> s, pinned |-> FALSE]]
  /\ spe = [t \in Threads |-> [u \in Uaddrs |->
              IF \E s \in Slots : FirstT(s) = t /\ FirstU(s) = u
                THEN CHOOSE s \in Slots : FirstT(s) = t /\ FirstU(s) = u
                ELSE NULL]]
  /\ accessed = [t \in Threads |-> [u \in Uaddrs |-> FALSE]]
  /\ kfree = {}
  /\ pc = [t \in Threads |-> "idle"]
  /\ loc = [t \in Threads |-> NoLocals]
  /\ ops = MaxOps - ZeroOps
  /\ panic = "none"
  /\ pending = [t \in Threads |-> NonePending]
  /\ adv = 0
  /\ snap = <<>>
  /\ dirty = {}
  /\ wr = NoWrite

NextZero ==
  \/ Next
  \/ \E t \in Threads, u \in Uaddrs : FrameGetZero(t, u)
  \/ \E t \in Threads : ZeroFill(t)
  \/ \E t \in Threads, u \in Uaddrs : UserWrite(t, u)

SpecZero == InitZero /\ [][NextZero]_vars

\* ------------------------------------------- clock_algorithm on its own
\* The scan of frame_evict applied to every registry of up to MaxScan
\* records: any pin flags, any accessed bits, any position the hand can be
\* left in.  The scanning thread holds frames_lock.
Caller == NThreads

\* The page that record i of such a registry backs: distinct pages, none of
\* them the page the caller asks for.
OwnerT(i) == ((i - 1) \div NUaddrs) + 1

OwnerU(i) == ((i - 1) % NUaddrs) + 1

InitClock ==
  \E n \in 1..MaxScan :
    \E pin \in [1..n -> BOOLEAN], bits \in [1..n -> BOOLEAN],
       hand \in {HEAD, TAIL} \cup (1..n) :
      /\ frames = [i \in 1..n |-> i]
      /\ clock_hand = hand
      /\ lock = Caller
      /\ transition_frames = 0
      /\ alive = [s \in 1..n |-> TRUE]
      /\ rec = [s \in 1..n |-> [t |-> OwnerT(s), uaddr |-> OwnerU(s),
                                kaddr |-> s, pinned |-> pin[s]]]
      /\ spe = [t \in Threads |-> [u \in Uaddrs |->
                  IF \E i \in 1..n : OwnerT(i) = t /\ OwnerU(i) = u
                    THEN CHOOSE i \in 1..n : OwnerT(i) = t /\ OwnerU(i) = u
                    ELSE NULL]]
      /\ accessed = [t \in Threads |-> [u \in Uaddrs |->
                  \E i \in 1..n : OwnerT(i) = t /\ OwnerU(i) = u /\ bits[i]]]
      /\ kfree = {}
      /\ pc = [t \in Threads |-> IF t = Caller THEN "evict_clock" ELSE "idle"]
      /\ loc = [t \in Threads |->
                  IF t = Caller
                    THEN [NoLocals EXCEPT !.u = NUaddrs, !.how = "evict"]
                    ELSE NoLocals]
      /\ ops = 0
      /\ panic = "none"
      /\ pending = [t \in Threads |-> NonePending]
      /\ adv = 0
      /\ dirty = {}
      /\ wr = NoWrite
      /\ snap = [frames |-> frames, rec |-> rec, accessed |-> accessed,
                 hand |-> hand]

\* frame_evict's call of clock_algorithm, counting the hand's advances
ScanCall ==
  /\ EvictClockBody(Caller)
  /\ adv' = clock_algorithm(frames, rec, accessed, clock_hand).adv

NextClock == ScanCall

SpecClock == InitClock /\ [][NextClock]_vars

\* ------------------------------------------- the pin protocol on its own
\* Up to MaxOps calls of frame_pin_no_lock and frame_unpin by one thread, in
\* any order, on any record of a registry of up to MaxScan records, with
\* frames_lock free or held by the caller.
InitPin ==
  \E n \in 1..MaxScan :
    \E pin \in [1..n -> BOOLEAN], holder \in {NULL, Caller} :
      /\ frames = [i \in 1..n |-> i]
      /\ clock_hand = HEAD
      /\ lock = holder
      /\ transition_frames = 0
      /\ alive = [s \in 1..n |-> TRUE]
      /\ rec = [s \in 1..n |-> [t |-> OwnerT(s), uaddr |-> OwnerU(s),
                                kaddr |-> s, pinned |-> pin[s]]]
      /\ spe = [t \in Threads |-> [u \in Uaddrs |-> NULL]]
      /\ accessed = [t \in Threads |-> [u \in Uaddrs |-> FALSE]]
      /\ kfree = {}
      /\ pc = [t \in Threads |-> "idle"]
      /\ loc = [t \in Threads |-> NoLocals]
      /\ ops = 0
      /\ panic = "none"
      /\ pending = [t \in Threads |-> NonePending]
      /\ adv = 0
      /\ snap = <<>>
      /\ dirty = {}
      /\ wr = NoWrite

\* frame_pin_no_lock (f) without its assertion
CallPin_NoAssert(f) ==
  /\ panic = "none"
  /\ pc[Caller] = "idle"
  /\ lock = Caller
  /\ InList(frames, f)
  /\ ops < MaxOps
  /\ ops' = ops + 1
  /\ rec' = frame_pin_no_lock(rec, f)
  /\ UNCHANGED <<frames, clock_hand, lock, transition_frames, alive, spe,
                 accessed, kfree, pc, loc, panic, pending, adv, snap,
                 dirty, wr>>

\* frame_pin_no_lock (f): ASSERT (!f->pinned); f->pinned = true;
CallPin(f) ==
  /\ panic = "none"
  /\ pc[Caller] = "idle"
  /\ lock = Caller
  /\ InList(frames, f)
  /\ ops < MaxOps
  /\ ops' = ops + 1
  /\ IF rec[f].pinned
       THEN panic' = "pin" /\ UNCHANGED rec
       ELSE rec' = frame_pin_no_lock(rec, f) /\ UNCHANGED panic
  /\ UNCHANGED <<frames, clock_hand, lock, transition_frames, alive, spe,
                 accessed, kfree, pc, loc, pending, adv, snap, dirty, wr>>

\* frame_unpin (f) up to its lock_acquire:
\* ASSERT (!lock_held_by_current_thread (&frames_lock));
CallUnpin(f) ==
  /\ panic = "none"
  /\ pc[Caller] = "idle"
  /\ InList(frames, f)
  /\ ops < MaxOps
  /\ ops' = ops + 1
  /\ IF lock = Caller
       THEN panic' = "lock_held" /\ UNCHANGED <<pc, loc>>
       ELSE /\ pc' = [pc EXCEPT ![Caller] = "unpin_lock"]
            /\ loc' = [loc EXCEPT ![Caller].f = f]
            /\ UNCHANGED panic
  /\ UNCHANGED <<frames, clock_hand, lock, transition_frames, alive, rec,
                 spe, accessed, kfree, pending, adv, snap, dirty, wr>>

\* The caller of frame_pin_no_lock takes frames_lock before and releases it
\* after, as frame_evict does.
CallerLock ==
  /\ panic = "none"
  /\ pc[Caller] = "idle"
  /\ lock' = IF lock = NULL THEN Caller ELSE NULL
  /\ UNCHANGED <<frames, clock_hand, transition_frames, alive, rec, spe,
                 accessed, kfree, pc, loc, ops, panic, pending, adv, snap,
                 dirty, wr>>

NextPin ==
  \/ \E f \in 1..MaxScan : CallPin(f)
  \/ \E f \in 1..MaxScan : CallUnpin(f)
  \/ CallerLock
  \/ LockAcquire(Caller)
  \/ FrameUnpin(Caller)

SpecPin == InitPin /\ [][NextPin]_vars

\* ---------------------------------- userprog/syscall.c: write on fd 1
SYSWRITE_BSIZE == 256

MaxBlocks  == 2      \* buffer sizes reach MaxBlocks blocks and WriteSlack
WriteSlack == 1      \* bytes; sizes and faults lie that near a block's end

\* Sizes, and offsets of the first unreadable byte, at and around the ends
\* of the blocks.
NearBlockEnd ==
  {x \in 0..(MaxBlocks * SYSWRITE_BSIZE + WriteSlack) :
     \E k \in 0..MaxBlocks, d \in 0..WriteSlack :
       x = k * SYSWRITE_BSIZE + d \/ x = k * SYSWRITE_BSIZE - d}

\* The byte at offset i of the user buffer.  Bytes one block apart differ.
ByteAt(i) == (i + (i \div SYSWRITE_BSIZE)) % 256

\* get_user: the byte, or -1 when the access faults; hi records a read at
\* or above PHYS_BASE.
get_user(w, i) ==
  [val |-> IF i < w.bad THEN ByteAt(i) ELSE -1,
   hi |-> w.kind = "phys" /\ i >= w.bad]

\* get_byte: get_user below PHYS_BASE, -1 without a read otherwise
get_byte(w, i) ==
  IF ~(w.kind = "phys" /\ i >= w.bad)
    THEN get_user(w, i)
    ELSE [val |-> -1, hi |-> FALSE]

\* write_blocks_fd1: putbuf (kernel_buffer, size); return size;
write_blocks_fd1(size) == size

\* sys_write with fd 1 enters sys_write_blocks: a buffer of n bytes at
\* user_buffer whose first unreadable byte is at offset bad (n: none), that
\* byte being at PHYS_BASE or unmapped.
InitWrite ==
  \E n \in NearBlockEnd :
    \E bad \in {x \in NearBlockEnd : x <= n}, kind \in {"phys", "fault"} :
      /\ frames = <<>>
      /\ clock_hand = HEAD
      /\ lock = NULL
      /\ transition_frames = 0
      /\ alive = [s \in Slots |-> FALSE]
      /\ rec = [s \in Slots |-> NoRecord]
      /\ spe = [t \in Threads |-> [u \in Uaddrs |-> NULL]]
      /\ accessed = [t \in Threads |-> [u \in Uaddrs |-> FALSE]]
      /\ kfree = Pages
      /\ pc = [t \in Threads |-> "idle"]
      /\ loc = [t \in Threads |-> NoLocals]
      /\ ops = 0
      /\ panic = "none"
      /\ pending = [t \in Threads |-> NonePending]
      /\ adv = 0
      /\ snap = <<>>
      /\ dirty = {}
      /\ wr = [at |-> "loop", size_total |-> n, bad |-> bad, kind |-> kind,
               user_buffer |-> 0, size_remain |-> n, result |-> 0,
               bytes_attempt |-> 0, i |-> 0, kernel_buffer |-> <<>>,
               out |-> <<>>, longest |-> 0, hi |-> FALSE, ret |-> 0]

\* The head of the while loop of sys_write_blocks: bytes_attempt, and the
\* entry of user_memcpy (kernel_buffer, user_buffer, bytes_attempt)
WriteAttempt ==
  /\ wr.at = "loop"
  /\ wr.size_remain > 0
  /\ wr' = [wr EXCEPT
              !.bytes_attempt = IF SYSWRITE_BSIZE > wr.size_remain
                                  THEN wr.size_remain ELSE SYSWRITE_BSIZE,
              !.i = 0,
              !.kernel_buffer = <<>>,
              !.at = "copy"]
  /\ UNCHANGED <<frames, clock_hand, lock, transition_frames, alive, rec,
                 spe, accessed, kfree, pc, loc, ops, panic, pending, adv,
                 snap, dirty>>

\* One turn of the for loop of user_memcpy; it returns i
user_memcpy ==
  /\ wr.at = "copy"
  /\ IF wr.i < wr.bytes_attempt
       THEN LET r == get_byte(wr, wr.user_buffer + wr.i)
            IN IF r.val = -1
                 THEN wr' = [wr EXCEPT !.at = "write", !.hi = @ \/ r.hi]
                 ELSE wr' = [wr EXCEPT
                               !.kernel_buffer = Append(@, r.val),
                               !.i = @ + 1,
                               !.hi = @ \/ r.hi]
       ELSE wr' = [wr EXCEPT !.at = "write"]
  /\ UNCHANGED <<frames, clock_hand, lock, transition_frames, alive, rec,
                 spe, accessed, kfree, pc, loc, ops, panic, pending, adv,
                 snap, dirty>>

\* The rest of the turn of the while loop: the writer is handed
\* bytes_copied bytes of kernel_buffer.
WriteBlock ==
  /\ wr.at = "write"
  /\ LET bytes_copied == wr.i
         bytes_written == write_blocks_fd1(bytes_copied)
     IN wr' = [wr EXCEPT
                 !.out = @ \o wr.kernel_buffer,
                 !.longest = IF bytes_copied > @ THEN bytes_copied ELSE @,
                 !.result = @ + bytes_written,
                 !.size_remain = IF bytes_written < wr.bytes_attempt
                                   THEN @ ELSE @ - bytes_copied,
                 !.at = IF bytes_written < wr.bytes_attempt
                          THEN "break" ELSE "loop"]
  /\ UNCHANGED <<frames, clock_hand, lock, transition_frames, alive, rec,
                 spe, accessed, kfree, pc, loc, ops, panic, pending, adv,
                 snap, dirty>>

\* return result; after the break or when size_remain has reached 0
WriteReturn ==
  /\ wr.at = "break" \/ (wr.at = "loop" /\ wr.size_remain = 0)
  /\ wr' = [wr EXCEPT !.at = "done", !.ret = wr.result]
  /\ UNCHANGED <<frames, clock_hand, lock, transition_frames, alive, rec,
                 spe, accessed, kfree, pc, loc, ops, panic, pending, adv,
                 snap, dirty>>

NextWrite == WriteAttempt \/ user_memcpy \/ WriteBlock \/ WriteReturn

SpecWrite == InitWrite /\ [][NextWrite]_vars

\* ------------------------------------------------------------ vocabulary
\* Thread t is inside frame_evict with record f as its victim.
VictimOf(t, f) == InFlight(t) /\ loc[t].f = f

\* frame_get has returned record f to thread t, which has not yet called
\* frame_unpin on it to the end.
HolderOf(t, f) == pc[t] \in {"got", "unpin_lock", "unpin"} /\ loc[t].f = f

\* Thread t's scan of the registry selects a victim in this step.
Selects(t, f) ==
  pc[t] = "evict_clock" /\ pc'[t] = "page_evict" /\ loc'[t].f = f

\* Record f leaves the registry in this step.
Removed(f) == InList(frames, f) /\ ~InList(frames', f)

\* Thread t's call of clock_algorithm ends in this step: it returns, or an
\* assertion of the scan stops the kernel.
TakesScan(t) ==
  /\ pc[t] = "evict_clock"
  /\ pc'[t] # "evict_clock" \/ panic' \in {"list_next", "pin"}

\* No record of the registry is unpinned (the registry may be empty).
NoCandidate == \A i \in 1..Len(frames) : rec[frames[i]].pinned

\* The user virtual address of page u of thread t.
VAddr(t, u) == 4096 * ((t - 1) * NUaddrs + u)

\* ===================================================================== C1
\* C1: no record is the victim of two frame_evict calls in flight at the
\* same time, and no scan selects a record that frame_get returned pinned
\* to a thread that has not yet unpinned it.
C1_ExclusivePin ==
  /\ [](\A t1, t2 \in Threads : \A f \in Slots :
          (t1 # t2 /\ VictimOf(t1, f)) => ~VictimOf(t2, f))
  /\ [][\A t1, t2 \in Threads : \A f \in Slots :
          (t1 # t2 /\ Selects(t1, f)) => ~HolderOf(t2, f)]_vars

\* ===================================================================== C2
\* C2: a record that leaves the registry is not pinned and is not the
\* victim of an eviction that has neither unpinned it nor written its new
\* owner fields.
C2_PinnedNeverFreed ==
  [][\A f \in Slots : Removed(f) =>
       /\ ~rec[f].pinned
       /\ \A t \in Threads :
            ~(pc[t] \in {"page_evict", "fail_unpin_lock", "fail_unpin"}
              /\ loc[t].f = f)]_vars

\* ===================================================================== C3
\* C3: whenever frame_clear removes a record, transition_frames is zero.
C3_ClearRemovesAtZero ==
  [][\A t \in Threads :
       (pc[t] = "clear_apply" /\ frames' # frames)
         => transition_frames = 0]_vars

\* ===================================================================== C4
\* C4: frame_clear does not return while an eviction that had incremented
\* transition_frames before frame_clear took the lock has not decremented it.
C4_ClearOutlastsEvictions ==
  [][\A t \in Threads :
       (pc[t] = "clear_apply" /\ pc'[t] = "idle")
         => pending[t].left = {}]_vars

\* frame_clear took the lock while an eviction was in flight, waited, and is
\* about to remove and return now that the eviction has decremented.
C4_Witness ==
  \E t \in Threads :
    pc[t] = "clear_apply" /\ pending[t].at # {} /\ pending[t].left = {}

\* ===================================================================== C5
\* C5: whenever frames_lock is free, the hand is the head sentinel or a
\* record of the registry: never the tail sentinel, never a removed record.
C5_HandValid ==
  (lock = NULL /\ panic = "none") =>
    (clock_hand = HEAD \/ InList(frames, clock_hand))

\* ===================================================================== C6
\* What a finished scan is compared with: the registry it was entered with.
Scanned == pc[Caller] # "evict_clock" \/ panic # "none"

ScanN == Len(snap.frames)

SomeUnpinned == \E i \in 1..ScanN : ~snap.rec[snap.frames[i]].pinned

ClockTerminates ==
  /\ panic = "none"
  /\ adv <= 2 * ScanN
  /\ loc[Caller].f \in 1..ScanN
  /\ ~snap.rec[loc[Caller].f].pinned
  /\ rec[loc[Caller].f].pinned

\* C6: with n >= 1 records of which one is unpinned, any hand and any
\* accessed bits, clock_algorithm ends after at most 2n advances of the
\* hand, without a failed assertion, and returns a record that was unpinned
\* on entry and is pinned on return.
C6_ClockTerminates == (Scanned /\ SomeUnpinned) => ClockTerminates

\* The same for every hand position but the tail sentinel.
C6_ValidHand ==
  (Scanned /\ SomeUnpinned /\ snap.hand # TAIL) => ClockTerminates

\* ===================================================================== C7
\* The records in the order of the scan: circular, from the one after the
\* hand.
ScanStart ==
  IF snap.hand \in {HEAD, TAIL} THEN 1
  ELSE (IndexOf(snap.frames, snap.hand) % ScanN) + 1

ScanOrder ==
  [k \in 1..ScanN |-> snap.frames[((ScanStart + k - 2) % ScanN) + 1]]

SnapPinned(f) == snap.rec[f].pinned

SnapBit(f) == snap.accessed[snap.rec[f].t][snap.rec[f].uaddr]

NowBit(f) == accessed[snap.rec[f].t][snap.rec[f].uaddr]

ExpectedPos ==
  IF \E k \in 1..ScanN : ~SnapPinned(ScanOrder[k]) /\ ~SnapBit(ScanOrder[k])
    THEN Min({k \in 1..ScanN :
                ~SnapPinned(ScanOrder[k]) /\ ~SnapBit(ScanOrder[k])})
    ELSE Min({k \in 1..ScanN : ~SnapPinned(ScanOrder[k])})

SecondChance ==
  /\ panic = "none"
  /\ loc[Caller].f = ScanOrder[ExpectedPos]
  /\ \A k \in 1..ScanN :
       (k < ExpectedPos /\ ~SnapPinned(ScanOrder[k])) => ~NowBit(ScanOrder[k])
  /\ \A f \in 1..ScanN : SnapPinned(f) => NowBit(f) = SnapBit(f)
  /\ (/\ snap.frames = <<1, 2, 3>>
      /\ snap.hand = HEAD
      /\ \A f \in 1..3 : ~SnapPinned(f)
      /\ SnapBit(1) /\ SnapBit(2) /\ ~SnapBit(3))
     => (loc[Caller].f = 3 /\ ~NowBit(1) /\ ~NowBit(2))

\* C7: with an unpinned record in the registry, the scan returns the first
\* unpinned record after the hand whose accessed bit is clear, or the first
\* unpinned record when all their bits are set; it clears the bit of every
\* unpinned record it passes before the victim and leaves the bits of
\* pinned records alone; bits [true, true, false] with the hand before
\* frame 1 give frame 3 and clear the bits of frames 1 and 2.
C7_SecondChance == (Scanned /\ SomeUnpinned) => SecondChance

\* The same for every hand position but the tail sentinel.
C7_ValidHand == (Scanned /\ SomeUnpinned /\ snap.hand # TAIL) => SecondChance

\* ===================================================================== C8
NoVictimEffect(t) ==
  /\ panic' = "none"
  /\ pc'[t] = "ret_novictim"
  /\ loc'[t].f = NULL
  /\ transition_frames' = transition_frames
  /\ frames' = frames
  /\ alive' = alive
  /\ \A s \in Slots : rec'[s].pinned = rec[s].pinned
  /\ accessed' = accessed

\* C8: when the registry is empty or every record is pinned, the scan
\* returns none, frame_evict returns none without incrementing the counter
\* or calling page_evict, frame_get returns none, and the registry, the pin
\* flags and the accessed bits are as they were.
C8_NoVictim ==
  [][\A t \in Threads :
       (TakesScan(t) /\ NoCandidate) => NoVictimEffect(t)]_vars

\* The same when the hand is not on the tail sentinel.
C8_ValidHand ==
  [][\A t \in Threads :
       (TakesScan(t) /\ NoCandidate /\ clock_hand # TAIL)
         => NoVictimEffect(t)]_vars

\* ===================================================================== C9
\* frame_get returns to t the record of a successful eviction.
ReturnsEvicted(t) == pc[t] = "got" /\ loc[t].how = "evict"

\* The registry of the two-frame scenario, as thread t asks for 0x3000.
TwoFrameScenario(t) ==
  /\ Len(frames) = 2
  /\ clock_hand = HEAD
  /\ VAddr(rec[frames[1]].t, rec[frames[1]].uaddr) = 4096
  /\ VAddr(rec[frames[2]].t, rec[frames[2]].uaddr) = 8192
  /\ ~rec[frames[1]].pinned /\ ~rec[frames[2]].pinned
  /\ accessed[rec[frames[1]].t][rec[frames[1]].uaddr]
  /\ ~accessed[rec[frames[2]].t][rec[frames[2]].uaddr]
  /\ VAddr(t, loc[t].u) = 12288

\* C9: after page_evict succeeded, the victim is repurposed in place: it is
\* returned in the registry, pinned, owned by (caller, requested uaddr), with
\* its physical frame, and the eviction changes no membership of the
\* registry; in the two-frame scenario the victim is B, A keeps its address
\* unpinned with its accessed bit cleared.
C9_Repurposed ==
  /\ [](\A t \in Threads : ReturnsEvicted(t) =>
          /\ InList(frames, loc[t].f)
          /\ rec[loc[t].f].pinned
          /\ rec[loc[t].f].t = t
          /\ rec[loc[t].f].uaddr = loc[t].u)
  /\ [][\A t \in Threads :
          /\ (pc[t] \in {"page_evict", "dec"} /\ pc'[t] # pc[t]) =>
               /\ frames' = frames
               /\ loc[t].f # NULL =>
                    rec'[loc[t].f].kaddr = rec[loc[t].f].kaddr
          /\ (TakesScan(t) /\ TwoFrameScenario(t)) =>
               /\ loc'[t].f = frames[2]
               /\ frames' = frames
               /\ rec'[frames[2]].pinned /\ ~rec'[frames[1]].pinned
               /\ rec'[frames[1]].uaddr = rec[frames[1]].uaddr
               /\ ~accessed'[rec[frames[1]].t][rec[frames[1]].uaddr]]_vars

\* ==================================================================== C10
\* C10: when page_evict fails, frame_evict's frame_unpin leaves the victim
\* unpinned, in the registry and with the owner it was selected with;
\* frame_get returns none after exactly one call of page_evict; and the
\* counter is decremented by one as on the success path.
C10_EvictFailure ==
  /\ [](\A t \in Threads :
          /\ pc[t] = "ret_evictfail" => (loc[t].f = NULL /\ loc[t].calls = 1)
          /\ pc[t] = "got" =>
               loc[t].calls = IF loc[t].how = "evict" THEN 1 ELSE 0)
  /\ [][\A t \in Threads :
          /\ (pc[t] = "fail_unpin" /\ (pc'[t] # pc[t] \/ panic' = "unpin")) =>
               /\ panic' = "none"
               /\ InList(frames', loc[t].f)
               /\ ~rec'[loc[t].f].pinned
               /\ <<rec'[loc[t].f].t, rec'[loc[t].f].uaddr>> = loc[t].own
          /\ (pc[t] = "dec" /\ pc'[t] # pc[t]) =>
               transition_frames' = transition_frames - 1]_vars

\* ==================================================================== C11
\* frame_get (uaddr, PAL_ZERO) returns a record to thread t in this step.
ReturnsZeroed(t) == pc[t] # "got" /\ pc'[t] = "got" /\ loc'[t].zero

\* C11: when frame_get was called with PAL_ZERO and returns a record, the
\* frame that record refers to holds only zero bytes at that moment, on the
\* fresh path and on the eviction path.
C11_ZeroFilled ==
  [][\A t \in Threads : ReturnsZeroed(t) =>
       /\ alive'[loc'[t].f]
       /\ rec'[loc'[t].f].kaddr \notin dirty']_vars

\* ==================================================================== C12
\* frame_get returns a record to thread t in this step.
Returns(t) == pc[t] # "got" /\ pc'[t] = "got"

\* C12: frame_get turns to frame_evict only when the allocator has no page;
\* with a fresh page it appends exactly one new record to the registry; and
\* every record it returns is in the registry, pinned and owned by the
\* calling thread at the requested address.
C12_FrameGet ==
  [][\A t \in Threads :
       /\ (pc[t] = "idle" /\ pc'[t] = "evict_lock") => kfree = {}
       /\ (pc[t] = "idle" /\ pc'[t] = "create_lock") =>
            (kfree # {} /\ frames' = frames)
       /\ (pc[t] = "create_insert" /\ pc'[t] = "got") =>
            /\ ~InList(frames, loc[t].f)
            /\ frames' = Append(frames, loc[t].f)
       /\ Returns(t) =>
            /\ InList(frames', loc'[t].f)
            /\ rec'[loc'[t].f].pinned
            /\ rec'[loc'[t].f].t = t
            /\ rec'[loc'[t].f].uaddr = loc'[t].u]_vars

\* ==================================================================== C13
\* frame_free of thread t runs from lock_acquire to lock_release in this step.
FreesOne(t) ==
  pc[t] = "free" /\ (pc'[t] = "idle" \/ panic' = "list_remove")

\* The entry frame_free of t was called on has a frame and it is unpinned.
PresentUnpinned(t) ==
  /\ spe[t][loc[t].u] # NULL
  /\ alive[spe[t][loc[t].u]]
  /\ ~rec[spe[t][loc[t].u]].pinned

\* C13: frame_free on an entry whose frame is present and unpinned removes
\* the record from the registry, gives the physical frame back to the page
\* allocator and clears the back-reference; on an entry with no frame or a
\* pinned frame it leaves registry, hand and back-reference as they are.
C13_FrameFree ==
  [][\A t \in Threads : FreesOne(t) =>
       IF PresentUnpinned(t)
         THEN /\ ~InList(frames', spe[t][loc[t].u])
              /\ rec[spe[t][loc[t].u]].kaddr \in kfree'
              /\ spe'[t][loc[t].u] = NULL
         ELSE (spe[t][loc[t].u] = NULL \/ alive[spe[t][loc[t].u]]) =>
                /\ frames' = frames
                /\ clock_hand' = clock_hand
                /\ spe' = spe]_vars

\* The same without the release of the physical frame.
C13_RecordOnly ==
  [][\A t \in Threads : FreesOne(t) =>
       IF PresentUnpinned(t)
         THEN /\ ~InList(frames', spe[t][loc[t].u])
              /\ spe'[t][loc[t].u] = NULL
         ELSE (spe[t][loc[t].u] = NULL \/ alive[spe[t][loc[t].u]]) =>
                /\ frames' = frames
                /\ clock_hand' = clock_hand
                /\ spe' = spe]_vars

\* ==================================================================== C14
\* C14: a pin of a pinned record, an unpin of an unpinned record and a
\* frame_unpin by the holder of frames_lock each stop at an assertion and
\* leave all pinned flags as they are; a pin that completes finds the record
\* unpinned and leaves it pinned, an unpin that completes finds it pinned
\* and leaves it unpinned, so the two alternate on every record.
C14_PinProtocol ==
  [][/\ \A f \in 1..Len(frames) :
          /\ CallPin(f) =>
               IF rec[f].pinned
                 THEN panic' = "pin" /\ rec' = rec
                 ELSE panic' = "none" /\ rec'[f].pinned
          /\ (CallUnpin(f) /\ lock = Caller) =>
               (panic' = "lock_held" /\ rec' = rec /\ lock' = lock)
          /\ (CallUnpin(f) /\ lock # Caller) => panic' = "none"
     /\ FrameUnpin(Caller) =>
          IF rec[loc[Caller].f].pinned
            THEN panic' = "none" /\ ~rec'[loc[Caller].f].pinned
            ELSE panic' = "unpin" /\ rec' = rec
     /\ \A f \in 1..Len(frames) :
          rec'[f].pinned # rec[f].pinned =>
            (panic' = "none" /\ lock = Caller
             /\ \A g \in 1..Len(frames) : g # f => rec'[g] = rec[g])]_vars

\* An unpin of a record that is not pinned has stopped at the assertion.
C14_Witness ==
  /\ panic = "unpin"
  /\ pc[Caller] = "unpin"
  /\ ~rec[loc[Caller].f].pinned

\* In the frame table under concurrent callers: on a record that stays
\* allocated, the pin of clock_algorithm finds the flag clear and every
\* frame_unpin that completes finds it set.
C14_Alternate ==
  [][\A t \in Threads : \A f \in Slots :
       /\ Selects(t, f) => (~rec[f].pinned /\ rec'[f].pinned)
       /\ (/\ pc[t] \in {"unpin", "fail_unpin"}
           /\ pc'[t] # pc[t]
           /\ loc[t].f = f
           /\ alive[f])
            => (rec[f].pinned /\ ~rec'[f].pinned)
       /\ (alive[f] /\ alive'[f] /\ rec'[f].pinned # rec[f].pinned) =>
            \E x \in Threads :
              \/ Selects(x, f)
              \/ pc[x] \in {"unpin", "fail_unpin"} /\ loc[x].f = f]_vars

\* ==================================================================== C15
\* The frame_evict calls between their increment and their decrement.
InFlightCalls == {t \in Threads : InFlight(t)}

\* C15: transition_frames is never negative and equals the number of
\* frame_evict calls that have incremented it and not yet decremented it;
\* page_evict runs only inside that window; and the decrement that brings
\* the counter to zero, made with the lock held on the success path and on
\* the failure path, wakes every thread waiting on no_transitions.
C15_Counter ==
  /\ [](/\ transition_frames >= 0
        /\ transition_frames = Cardinality(InFlightCalls)
        /\ \A t \in Threads :
             pc[t] = "page_evict" => transition_frames >= 1)
  /\ [][\A t \in Threads :
          /\ (pc[t] = "evict_clock" /\ pc'[t] = "page_evict") =>
               (lock = t /\ transition_frames' = transition_frames + 1)
          /\ (pc[t] = "dec" /\ pc'[t] # "dec") =>
               /\ lock = t
               /\ transition_frames' = transition_frames - 1
               /\ transition_frames' = 0 =>
                    \A x \in Threads :
                      pc[x] = "clear_wait" => pc'[x] = "clear_woken"
          /\ transition_frames' # transition_frames =>
               \E x \in Threads : pc[x] \in {"evict_clock", "dec"}
                                     /\ pc'[x] # pc[x]]_vars

\* A frame_clear that waited has been woken by the decrement to zero of an
\* eviction whose page_evict failed.
C15_Witness ==
  \E t, x \in Threads :
    /\ pc[t] = "clear_woken"
    /\ transition_frames = 0
    /\ pc[x] = "ret_evictfail"

\* ==================================================================== C16
\* The statements of vm/frame.c that lie between a lock_acquire and the
\* lock_release that follows it.
Locked ==
  {"create_insert", "evict_clock", "fail_unpin", "dec", "unpin", "free",
   "clear_check", "clear_apply"}

\* The pinned flag of a record of the registry changes in this step.
PinChanges ==
  \E f \in Slots :
    /\ InList(frames, f)
    /\ InList(frames', f)
    /\ rec'[f].pinned # rec[f].pinned

\* C16: the registry's membership, the pinned flag of a record in the
\* registry and the clock hand change, and the hand is followed, only in
\* steps of the thread that holds frames_lock; a thread in page_evict does
\* not hold it.
C16_LockDiscipline ==
  /\ [](\A t \in Threads :
          /\ pc[t] \in Locked => lock = t
          /\ pc[t] = "page_evict" => lock # t)
  /\ [][(frames' # frames \/ clock_hand' # clock_hand \/ PinChanges) =>
          /\ lock \in Threads
          /\ pc[lock] \in Locked
          /\ pc'[lock] # pc[lock]]_vars

\* A thread changes the registry under the lock while another is inside
\* page_evict without it.
C16_Witness ==
  \E t, x \in Threads :
    /\ pc[t] = "page_evict"
    /\ lock = x
    /\ pc[x] \in {"create_insert", "free", "clear_apply"}

\* ==================================================================== C17
\* Thread t is inside frame_get, frame_unpin, frame_free or frame_clear.
InCall(t) == pc[t] \notin {"idle", "got"}

\* A step of the call thread t is in.
CallStep(t) ==
  \/ LockAcquire(t)
  \/ CreateInsert(t)
  \/ EvictClock(t)
  \/ PageEvict(t)
  \/ EvictFailUnpin(t)
  \/ EvictDec(t)
  \/ ReturnNull(t)
  \/ FrameUnpin(t)
  \/ FreeBody(t)
  \/ ClearCheck(t)
  \/ ClearApply(t)

\* While a call is unfinished some call can take a step; no thread asks for
\* frames_lock while holding it; and a thread waits on no_transitions only
\* while an eviction is in flight, whose decrement to zero wakes it.
CallsProceed ==
  /\ (\E t \in Threads : InCall(t)) =>
       (\E t \in Threads : InCall(t) /\ ENABLED CallStep(t))
  /\ \A t \in Threads : pc[t] \in DOMAIN AfterAcquire => lock # t
  /\ \A t \in Threads : pc[t] = "clear_wait" => transition_frames > 0

\* C17: every call of frame_clear, frame_get, frame_unpin and frame_free
\* goes on to its return: in no reachable state are all unfinished calls
\* blocked, no thread acquires frames_lock twice, and no wake-up is lost.
C17_CallsReturn == CallsProceed

\* The same as long as no assertion has stopped the kernel.
C17_NoAssertion == panic = "none" => CallsProceed

\* ==================================================================== C18
\* The record that follows the hand in circular order; the first record
\* when the hand is where frame_init put it.
AfterHand ==
  IF clock_hand = HEAD THEN frames[1]
  ELSE frames[(IndexOf(frames, clock_hand) % Len(frames)) + 1]

\* C18: a scan that returns a victim leaves the hand on it; a scan entered
\* with the hand on a record (the previous victim) or on the list head
\* examines the record that follows first, so it takes that record when it
\* is unpinned with its accessed bit clear; and the hand moves only in a
\* scan or when the record it points at is removed: not in frame_create,
\* not in frame_unpin, not when another record is removed.
C18_HandFollowsVictim ==
  [][/\ \A t \in Threads : \A f \in Slots :
          Selects(t, f) => clock_hand' = f
     /\ \A t \in Threads :
          (/\ TakesScan(t)
           /\ frames # <<>>
           /\ clock_hand = HEAD \/ InList(frames, clock_hand)
           /\ ~rec[AfterHand].pinned
           /\ ~accessed[rec[AfterHand].t][rec[AfterHand].uaddr])
            => (Selects(t, AfterHand) /\ accessed' = accessed)
     /\ clock_hand' # clock_hand =>
          \/ \E t \in Threads : TakesScan(t)
          \/ Removed(clock_hand)]_vars

\* A scan has gone past the first record and left the hand on its victim,
\* with a second record registered since.
C18_Witness ==
  \E t \in Threads :
    /\ pc[t] = "page_evict"
    /\ Len(frames) = 2
    /\ clock_hand = frames[2]
    /\ loc[t].f = clock_hand

\* ==================================================================== C19
\* The first k bytes of the user buffer, in order.
BufferPrefix(k) == [i \in 1..k |-> ByteAt(i - 1)]

\* C19: when sys_write_blocks has returned, the writer has been handed the
\* bytes of the buffer up to the first unreadable one (all n when every byte
\* is readable), in order and each once, in blocks of at most
\* SYSWRITE_BSIZE bytes; the result is their number; and no byte at or
\* above PHYS_BASE has been read.
C19_WriteBlocks ==
  wr.at = "done" =>
    /\ wr.out = BufferPrefix(wr.bad)
    /\ wr.ret = wr.bad
    /\ wr.longest <= SYSWRITE_BSIZE
    /\ ~wr.hi

\* The same for buffers that fit in one block.
C19_OneBlock ==
  (wr.at = "done" /\ wr.size_total <= SYSWRITE_BSIZE) =>
    /\ wr.out = BufferPrefix(wr.bad)
    /\ wr.ret = wr.bad
    /\ wr.longest <= SYSWRITE_BSIZE
    /\ ~wr.hi

====
